---- MODULE Spec2Model ----
(***************************************************************************)
(* A model of redfish_interop_validator/profile.py: the requirement merger *)
(* (dict_merge), the profile locator with its process-wide cache           *)
(* (parseProfileInclude, profile_cache) and the inclusion resolver         *)
(* (getProfiles).                                                          *)
(*                                                                         *)
(* Python objects live in a heap: a dict or a list is an object with an    *)
(* address, and a value is a scalar or a reference to an object, so that   *)
(* `dct[k] = v` shares the object v between the two dicts as it does in    *)
(* Python.  A dict keeps its keys in insertion order.                      *)
(***************************************************************************)
EXTENDS Integers, Sequences, FiniteSets, TLC

VARIABLES
    heap,     \* the Python heap: a sequence of objects, an address is an index
    log,      \* what my_logger was given, in order
    io,       \* the reads of the network and of the disk made so far, in order
    cache,    \* profile_cache: target_file -> value
    files,    \* the search directories: profile name -> candidate files, in glob order
    remote,   \* the repository: the set of profile names it serves
    chain,    \* the chain list of the running top-level getProfiles call
    stack,    \* the call stack of getProfiles frames, innermost last
    status,   \* "idle", "running", "done" or "raised"
    ret,      \* what the last finished call returned, or the exception it raised
    runs,     \* the top-level getProfiles calls made so far, oldest first
    call,     \* the arguments of the last dict_merge / parseProfileInclude call
    pre       \* the heap and the cache as they were before the last call

vars == <<heap, log, io, cache, files, remote, chain, stack, status, ret, runs, call, pre>>

(***************************************************************************)
(* Values and objects                                                      *)
(***************************************************************************)
PyNone == [t |-> "none", v |-> 0]
PyStr(s) == [t |-> "str", v |-> s]
PyInt(n) == [t |-> "int", v |-> n]
PyBool(b) == [t |-> "bool", v |-> b]
\* A version string, kept as its characters: PyVer(<<"1", ".", "1", "0", ".", "0">>) is "1.10.0"
PyVer(cs) == [t |-> "ver", v |-> cs]
PyRef(a) == [t |-> "ref", v |-> a]
\* What urlopen(...).read() returns: the raw bytes of the file of profile n
PyBytes(n) == [t |-> "bytes", v |-> n]

\* JSON text, as json.load reads it
DictLit(items) == [t |-> "dictlit", v |-> items]
ListLit(items) == [t |-> "listlit", v |-> items]

NewDict(ks, vs) == [t |-> "dict", ks |-> ks, vs |-> vs]
NewList(vs) == [t |-> "list", ks |-> <<>>, vs |-> vs]

IsRef(x) == x.t = "ref"
IsDict(h, x) == IsRef(x) /\ h[x.v].t = "dict"
IsList(h, x) == IsRef(x) /\ h[x.v].t = "list"

\* type(x).__name__
PyType(h, x) ==
    CASE x.t = "none" -> "NoneType"
      [] x.t = "str" -> "str"
      [] x.t = "ver" -> "str"
      [] x.t = "int" -> "int"
      [] x.t = "bool" -> "bool"
      [] x.t = "bytes" -> "bytes"
      [] x.t = "ref" -> h[x.v].t

Range(s) == {s[i] : i \in 1..Len(s)}

\* k in d
Has(o, k) == \E i \in 1..Len(o.ks) : o.ks[i] = k
KeyIndex(o, k) == CHOOSE i \in 1..Len(o.ks) : o.ks[i] = k
\* d[k], for a key d holds
Get(o, k) == o.vs[KeyIndex(o, k)]
\* d.get(k, default)
GetOr(o, k, default) == IF Has(o, k) THEN Get(o, k) ELSE default
\* d[k] = v: a key d holds keeps its place, a new key goes last
Put(o, k, v) ==
    IF Has(o, k)
    THEN [o EXCEPT !.vs[KeyIndex(o, k)] = v]
    ELSE [o EXCEPT !.ks = Append(o.ks, k), !.vs = Append(o.vs, v)]

\* heap with d[k] = v done on the dict at address a
Store(h, a, k, v) == [h EXCEPT ![a] = Put(h[a], k, v)]
Alloc(h, o) == Append(h, o)

\* F(x) with x worked out once, before F is applied to it
Eval(x, F(_)) == CHOOSE y \in {F(v) : v \in {x}} : TRUE

\* json.load: a fresh tree of objects for the text lit
RECURSIVE Load(_, _), LoadItems(_, _, _, _)
Load(h, lit) ==
    IF lit.t = "dictlit"
    THEN Eval(LoadItems(h, [i \in 1..Len(lit.v) |-> lit.v[i][2]], 1, <<>>), LAMBDA r :
            [h |-> Alloc(r.h, NewDict([i \in 1..Len(lit.v) |-> lit.v[i][1]], r.vals)),
             val |-> PyRef(Len(r.h) + 1)])
    ELSE IF lit.t = "listlit"
    THEN Eval(LoadItems(h, lit.v, 1, <<>>), LAMBDA r :
            [h |-> Alloc(r.h, NewList(r.vals)), val |-> PyRef(Len(r.h) + 1)])
    ELSE [h |-> h, val |-> lit]
LoadItems(h, lits, i, acc) ==
    IF i > Len(lits)
    THEN [h |-> h, vals |-> acc]
    ELSE Eval(<<Load(h, lits[i]), acc>>, LAMBDA r :
            LoadItems(r[1].h, lits, i + 1, Append(r[2], r[1].val)))

\* json.dumps(x, sort_keys=True): the structure of x with the key order of
\* its dicts forgotten, or Circular for an object that holds itself, for
\* which json.dumps raises ValueError
Circular == [t |-> "circular", v |-> 0]
RECURSIVE DumpsFrom(_, _, _)
DumpsFrom(h, x, markers) ==
    IF ~IsRef(x) THEN x
    ELSE IF x.v \in markers THEN Circular
    ELSE LET o == h[x.v]
         IN  Eval([i \in 1..Len(o.vs) |-> DumpsFrom(h, o.vs[i], markers \cup {x.v})], LAMBDA kids :
                IF \E i \in 1..Len(o.vs) : kids[i] = Circular THEN Circular
                ELSE IF o.t = "dict"
                THEN [t |-> "json", v |-> [k \in Range(o.ks) |-> kids[KeyIndex(o, k)]]]
                ELSE [t |-> "jsonlist", v |-> kids])
Dumps(h, x) == DumpsFrom(h, x, {})

\* The str json.dumps returns for the structure j: one text for one structure
JsonText(j) == PyStr(ToString(j))

(***************************************************************************)
(* The version codec (helper.splitVersionString)                           *)
(***************************************************************************)
DigitVal(c) ==
    CASE c = "0" -> 0 [] c = "1" -> 1 [] c = "2" -> 2 [] c = "3" -> 3 [] c = "4" -> 4
      [] c = "5" -> 5 [] c = "6" -> 6 [] c = "7" -> 7 [] c = "8" -> 8 [] c = "9" -> 9

RECURSIVE SplitDots(_, _, _, _)
SplitDots(cs, i, cur, acc) ==
    IF i > Len(cs) THEN Append(acc, cur)
    ELSE IF cs[i] = "." THEN SplitDots(cs, i + 1, 0, Append(acc, cur))
    ELSE SplitDots(cs, i + 1, cur * 10 + DigitVal(cs[i]), acc)

\* the dotted version string v as a tuple of integers
splitVersionString(v) == SplitDots(v.v, 1, 0, <<>>)

\* a < b for two tuples of integers, as Python orders tuples
RECURSIVE TupleLessFrom(_, _, _)
TupleLessFrom(a, b, i) ==
    IF i > Len(a) THEN i <= Len(b)
    ELSE IF i > Len(b) THEN FALSE
    ELSE IF a[i] # b[i] THEN a[i] < b[i]
    ELSE TupleLessFrom(a, b, i + 1)
TupleLess(a, b) == TupleLessFrom(a, b, 1)

(***************************************************************************)
(* dict_merge                                                              *)
(***************************************************************************)
LogEntry(level, what, arg) == [level |-> level, what |-> what, arg |-> arg]

\* REQUIREMENT_HIERARCHY.get(req, 0)
REQUIREMENT_HIERARCHY(req) ==
    CASE req = PyStr("Mandatory") -> 4
      [] req = PyStr("Recommended") -> 3
      [] req = PyStr("IfImplemented") -> 2
      [] req = PyStr("Supported") -> 1
      [] req = PyNone -> 4
      [] OTHER -> 0

\* A dict or a list is no key of a Python dict or set: hashing it raises TypeError
Hashable(x) == ~IsRef(x)

\* x as the member of a set: True is the member 1 and False the member 0
\* (bool is a subclass of int, with int's equality and hash)
SetMember(x) == IF x.t = "bool" THEN PyInt(IF x.v THEN 1 ELSE 0) ELSE x

\* The value returned, or the exception raised
Returns(val) == [val |-> val, exc |-> ""]
Raises(exc) == [val |-> PyNone, exc |-> exc]

ReadRequirementOf(req1, req2) ==
    IF ~Hashable(req1) THEN Raises("TypeError")
    ELSE IF REQUIREMENT_HIERARCHY(req1) = 4 THEN Returns(req1)
    ELSE IF ~Hashable(req2) THEN Raises("TypeError")
    ELSE IF REQUIREMENT_HIERARCHY(req2) = 4 THEN Returns(req2)
    ELSE Returns(IF req1 # PyNone THEN req1 ELSE req2)

\* WriteRequirementOf with max in the place of min: the most restrictive wins
WriteRequirementOf_Max(req1, req2) ==
    IF ~Hashable(req1) \/ ~Hashable(req2) THEN Raises("TypeError")
    ELSE IF REQUIREMENT_HIERARCHY(req2) > REQUIREMENT_HIERARCHY(req1)
    THEN Returns(req2)
    ELSE Returns(req1)

\* min(req1, req2, key=...): the first of the two when the keys tie
WriteRequirementOf(req1, req2) ==
    IF ~Hashable(req1) \/ ~Hashable(req2) THEN Raises("TypeError")
    ELSE IF REQUIREMENT_HIERARCHY(req2) < REQUIREMENT_HIERARCHY(req1)
    THEN Returns(req2)
    ELSE Returns(req1)

get_more_restrictive_requirement(req1, req2, requirement_type) ==
    IF requirement_type = "ReadRequirement"
    THEN ReadRequirementOf(req1, req2)
    ELSE WriteRequirementOf(req1, req2)

\* compare_versions without the key: max(ver1, ver2) and min(ver1, ver2) order
\* the two strings character by character
CharCode(c) == IF c = "." THEN -1 ELSE DigitVal(c)
StrLess(a, b) ==
    TupleLess([i \in 1..Len(a.v) |-> CharCode(a.v[i])], [i \in 1..Len(b.v) |-> CharCode(b.v[i])])
compare_versions_AsStrings(ver1, ver2, use_max) ==
    IF ver1 = PyNone THEN ver2
    ELSE IF ver2 = PyNone THEN ver1
    ELSE IF use_max
    THEN (IF StrLess(ver1, ver2) THEN ver2 ELSE ver1)
    ELSE (IF StrLess(ver2, ver1) THEN ver2 ELSE ver1)

\* max(ver1, ver2, key=...) and min(ver1, ver2, key=...) return the first of
\* the two when the keys tie
compare_versions(ver1, ver2, use_max) ==
    IF ver1 = PyNone THEN ver2
    ELSE IF ver2 = PyNone THEN ver1
    ELSE IF use_max
    THEN (IF TupleLess(splitVersionString(ver1), splitVersionString(ver2)) THEN ver2 ELSE ver1)
    ELSE (IF TupleLess(splitVersionString(ver2), splitVersionString(ver1)) THEN ver2 ELSE ver1)

\* max(a, b) and min(a, b) of two counts: two ints by their value, two
\* strings (kept as their characters) character by character, the first of
\* the two when they tie; Python orders no int against a str, and orders
\* None and dicts against nothing
CountMax(a, b) ==
    IF a.t = "int" /\ b.t = "int" THEN Returns(IF b.v > a.v THEN b ELSE a)
    ELSE IF a.t = "ver" /\ b.t = "ver" THEN Returns(IF StrLess(a, b) THEN b ELSE a)
    ELSE Raises("TypeError")
CountMin(a, b) ==
    IF a.t = "int" /\ b.t = "int" THEN Returns(IF b.v < a.v THEN b ELSE a)
    ELSE IF a.t = "ver" /\ b.t = "ver" THEN Returns(IF StrLess(b, a) THEN b ELSE a)
    ELSE Raises("TypeError")

\* merge_lists: the items of list1 + list2, an item whose key was seen dropped.
\* The key of a dict is the str json.dumps gives for it, the key of any other
\* item is the item, and a list is no member of a set
RECURSIVE MergeItems(_, _, _, _, _)
MergeItems(h, items, i, seen, merged) ==
    IF i > Len(items) THEN Returns(merged)
    ELSE LET item == items[i]
         IN  IF ~IsDict(h, item) /\ ~Hashable(item) THEN Raises("TypeError")
             ELSE Eval(<<IF ~IsDict(h, item) THEN SetMember(item)
                         ELSE IF Dumps(h, item) = Circular THEN Circular
                         ELSE JsonText(Dumps(h, item)), seen, merged>>, LAMBDA a :
                    LET item_key == a[1]
                    IN  IF item_key = Circular THEN Raises("ValueError")
                        ELSE IF item_key \in a[2] THEN MergeItems(h, items, i + 1, a[2], a[3])
                        ELSE MergeItems(h, items, i + 1, a[2] \cup {item_key}, Append(a[3], item)))

merge_lists(h, list1, list2) == MergeItems(h, h[list1.v].vs \o h[list2.v].vs, 1, {}, <<>>)

\* One pass of the loop of dict_merge, for the key k of merge_dct; m is the
\* heap, the log and the exception raised so far
RECURSIVE dict_merge(_, _, _), MergeKeys(_, _, _, _, _)
MergeKey(m, dct, merge_dct, k) ==
    LET h == m.h
        v == Get(h[merge_dct], k)
        has == Has(h[dct], k)
        old == Get(h[dct], k)
        set(r) == IF r.exc # "" THEN [m EXCEPT !.exc = r.exc]
                  ELSE [m EXCEPT !.h = Store(h, dct, k, r.val)]
    IN  IF k \in {"ReadRequirement", "WriteRequirement"}
        THEN set(get_more_restrictive_requirement(GetOr(h[dct], k, PyNone), v, k))
        ELSE IF ~has THEN set(Returns(v))
        ELSE IF k = "MinVersion" THEN set(Returns(compare_versions(old, v, TRUE)))
        ELSE IF k = "MaxVersion" THEN set(Returns(compare_versions(old, v, FALSE)))
        ELSE IF k = "MinCount" THEN set(CountMax(old, v))
        ELSE IF k = "MaxCount" THEN set(CountMin(old, v))
        ELSE IF IsDict(h, old) /\ IsDict(h, v) THEN dict_merge(m, old.v, v.v)
        ELSE IF IsList(h, old) /\ IsList(h, v)
        THEN Eval(merge_lists(h, old, v), LAMBDA r :
                IF r.exc # "" THEN [m EXCEPT !.exc = r.exc]
                ELSE [m EXCEPT !.h = Store(Alloc(h, NewList(r.val)), dct, k, PyRef(Len(h) + 1))])
        ELSE IF PyType(h, old) # PyType(h, v)
        THEN [m EXCEPT !.log = Append(m.log,
                 LogEntry("warning", "TypeConflict", <<k, PyType(h, old), PyType(h, v)>>))]
        ELSE m

\* for k, v in merge_dct.items(): each value as it is when its pass begins;
\* the iterator raises RuntimeError when merge_dct has changed size
MergeKeys(m, dct, merge_dct, ks, i) ==
    IF m.exc # "" THEN m
    ELSE IF Len(m.h[merge_dct].ks) # Len(ks) THEN [m EXCEPT !.exc = "RuntimeError"]
    ELSE IF i > Len(ks) THEN m
    ELSE Eval(MergeKey(m, dct, merge_dct, ks[i]), LAMBDA m1 :
            MergeKeys(m1, dct, merge_dct, ks, i + 1))

dict_merge(m, dct, merge_dct) ==
    Eval(<<m, dct, merge_dct>>, LAMBDA a : MergeKeys(a[1], a[2], a[3], a[1].h[a[3]].ks, 1))

(***************************************************************************)
(* The profile locator: getProfilesMatchingName, getProfileFromRepo,       *)
(* parseProfileInclude and profile_cache                                   *)
(***************************************************************************)
defaultrepository == PyStr("http://redfish.dmtf.org/profiles")
V1_0_0 == PyVer(<<"1", ".", "0", ".", "0">>)

\* '{}.{}'.format(target_name, 'json')
TargetFile(target_name) == <<target_name, "json">>

\* The files of the search directories whose name matches name, in glob's
\* order: a file of base B is B.json or B.v<major>_<minor>_<patch>.json
getProfilesMatchingName(name, directories) ==
    SelectSeq(directories, LAMBDA f : TargetFile(f.base) = name)

\* What the repository repo answers for profilename: the bytes of a file, or
\* None when there is no such file or the request fails (line 176)
getProfileFromRepo(w, profilename, repo) ==
    LET url == IF repo = PyNone THEN defaultrepository ELSE repo
    IN  [w EXCEPT !.io = Append(w.io, [op |-> "urlopen", name |-> profilename]),
                  !.val = IF <<url, profilename>> \in w.remote
                          THEN PyBytes(profilename) ELSE PyNone]

\* for target_name in target_list: one file read, the highest version so far
\* and the profile kept
RECURSIVE ReadCandidates(_, _, _, _, _)
ReadCandidates(w, target_list, i, max_version, data) ==
    IF i > Len(target_list)
    THEN [w |-> w, max_version |-> max_version, data |-> data]
    ELSE Eval(<<Load(w.h, target_list[i].doc), max_version, data>>, LAMBDA a :
            LET f == a[1]
                my_profile == f.val
                my_version == splitVersionString(GetOr(f.h[my_profile.v], "ProfileVersion", V1_0_0))
                new_max == IF TupleLess(a[2], my_version) THEN my_version ELSE a[2]
            IN  Eval([w EXCEPT !.h = f.h,
                               !.io = Append(w.io, [op |-> "open", name |-> TargetFile(target_list[i].base)])],
                     LAMBDA w2 :
                        ReadCandidates(w2, target_list, i + 1, new_max,
                                       IF my_version = new_max \/ a[3] = PyNone THEN my_profile ELSE a[3])))

\* parseProfileInclude without the cache: lines 186-215
LocateProfile(w, target_name, target_profile_info, directories, online) ==
    LET info == w.h[target_profile_info]
        min_version == splitVersionString(GetOr(info, "MinVersion", V1_0_0))
        target_file == TargetFile(target_name)
        repo == GetOr(info, "Repository", PyNone)
        w1 == IF online THEN getProfileFromRepo(w, target_file, repo) ELSE [w EXCEPT !.val = PyNone]
        w2 == [w1 EXCEPT !.io = Append(w1.io, [op |-> "glob", name |-> target_file])]
        target_list == getProfilesMatchingName(target_file, directories)
    IN  IF w1.val # PyNone THEN w1
        ELSE IF Len(target_list) > 0
        THEN Eval(ReadCandidates(w2, target_list, 1, <<1, 0, 0>>, PyNone), LAMBDA r :
                [r.w EXCEPT !.val = r.data,
                            !.log = IF TupleLess(r.max_version, min_version)
                                    THEN Append(r.w.log, LogEntry("warning", "VersionWarning", <<target_name>>))
                                    ELSE r.w.log])
        ELSE [w2 EXCEPT !.val = PyNone,
                        !.log = Append(w2.log, LogEntry("error", "ImportError", <<target_name>>))]

\* profile_cache[target_file] = data
CacheStore(c, target_file, data) ==
    [f \in DOMAIN c \cup {target_file} |-> IF f = target_file THEN data ELSE c[f]]

\* parseProfileInclude keeping in the cache only the profiles it found
parseProfileInclude_FoundOnly(w, target_name, target_profile_info, directories, online) ==
    LET target_file == TargetFile(target_name)
    IN  IF target_file \in DOMAIN w.cache
        THEN [w EXCEPT !.val = w.cache[target_file]]
        ELSE Eval(LocateProfile(w, target_name, target_profile_info, directories, online), LAMBDA r :
                IF r.val = PyNone THEN r
                ELSE [r EXCEPT !.cache = CacheStore(r.cache, target_file, r.val)])

\* w is the heap, the log, the reads made, the cache and the repository;
\* the result is w after the call, with the value returned in val
parseProfileInclude(w, target_name, target_profile_info, directories, online) ==
    LET target_file == TargetFile(target_name)
    IN  IF target_file \in DOMAIN w.cache
        THEN [w EXCEPT !.val = w.cache[target_file]]
        ELSE Eval(LocateProfile(w, target_name, target_profile_info, directories, online), LAMBDA r :
                [r EXCEPT !.cache = CacheStore(r.cache, target_file, r.val)])

World == [h |-> heap, log |-> log, io |-> io, cache |-> cache, remote |-> remote,
          val |-> PyNone, exc |-> ""]

(***************************************************************************)
(* The inclusion resolver: getProfiles, one step of it at a time.  A frame *)
(* is one call of getProfiles: its arguments, its locals and the place it  *)
(* has reached.                                                            *)
(***************************************************************************)
\* bool(x)
Truthy(h, x) ==
    CASE x.t = "none" -> FALSE
      [] x.t = "int" -> x.v # 0
      [] x.t = "ref" -> Len(h[x.v].vs) > 0
      [] OTHER -> TRUE

\* iter(d.items()) for the dict at address d, iter({}.items()) for d = 0:
\* the place reached and the size d had when the iterator was made
DictIter(h, d) == [d |-> d, pos |-> 0, used |-> IF d = 0 THEN 0 ELSE Len(h[d].ks)]
\* the dict has changed size since: next() raises RuntimeError
IterStale(h, it) == it.d # 0 /\ Len(h[it.d].ks) # it.used
IterHasNext(h, it) == it.d # 0 /\ it.pos < Len(h[it.d].ks)
IterKey(h, it) == h[it.d].ks[it.pos]
IterValue(h, it) == h[it.d].vs[it.pos]
\* x.get(k, {}) as the address of a dict, 0 for the default
DictOrEmpty(o, k) == IF Has(o, k) THEN Get(o, k).v ELSE 0

NewFrame(h, profile, online) ==
    [profile |-> profile, online |-> online, pc |-> "whole",
     profile_includes |-> <<>>, required_by_resource |-> <<>>,
     it |-> DictIter(h, DictOrEmpty(h[profile], "RequiredProfiles")),
     ri |-> DictIter(h, 0), oi |-> [l |-> 0, pos |-> 1], ei |-> DictIter(h, 0),
     resource_name |-> "", inner_object |-> 0]

\* getProfiles with the cycle guard taken out: every call is entered
Enter_Unguarded(w, ch, profile, online) ==
    LET profile_name == GetOr(w.h[profile], "ProfileName", PyNone)
    IN  [w |-> w, chain |-> Append(ch, profile_name), guarded |-> FALSE,
         frame |-> NewFrame(w.h, profile, online)]

\* getProfiles with line 231 left out: the guard is kept, the name is not
\* appended
Enter_NotAppended(w, ch, profile, online) ==
    LET profile_name == GetOr(w.h[profile], "ProfileName", PyNone)
    IN  IF profile_name \in Range(ch)
        THEN [w |-> [w EXCEPT !.log = Append(w.log,
                        LogEntry("error", "CyclicalImport", <<profile_name>>))],
              chain |-> ch, guarded |-> TRUE, frame |-> NewFrame(w.h, profile, online)]
        ELSE [w |-> w, chain |-> ch, guarded |-> FALSE,
              frame |-> NewFrame(w.h, profile, online)]

\* getProfiles, lines 222-235: the call returns [], [] at once for a name the
\* chain holds, and otherwise appends the name and begins
Enter(w, ch, profile, online) ==
    LET profile_name == GetOr(w.h[profile], "ProfileName", PyNone)
    IN  IF profile_name \in Range(ch)
        THEN [w |-> [w EXCEPT !.log = Append(w.log,
                        LogEntry("error", "CyclicalImport", <<profile_name>>))],
              chain |-> ch, guarded |-> TRUE, frame |-> NewFrame(w.h, profile, online)]
        ELSE [w |-> w, chain |-> Append(ch, profile_name), guarded |-> FALSE,
              frame |-> NewFrame(w.h, profile, online)]

\* lines 244-247: for resource_type, resource_data in included_resources.items()
RECURSIVE MergeResources(_, _, _, _)
MergeResources(w, profile, it, i) ==
    IF w.exc # "" \/ it.d = 0 THEN w
    ELSE IF IterStale(w.h, it) THEN [w EXCEPT !.exc = "RuntimeError"]
    ELSE IF i > it.used THEN w
    ELSE LET resource_type == w.h[it.d].ks[i]
             resource_data == w.h[it.d].vs[i]
             resources == Get(w.h[profile], "Resources").v
         IN  Eval(IF Has(w.h[resources], resource_type) THEN w.h
                  ELSE Store(Alloc(w.h, NewDict(<<>>, <<>>)), resources, resource_type,
                             PyRef(Len(w.h) + 1)),
                  LAMBDA h1 :
                    LET dst == Get(h1[resources], resource_type)
                    IN  IF ~IsDict(h1, dst) \/ ~IsDict(h1, resource_data)
                        THEN [w EXCEPT !.h = h1, !.exc = "AttributeError"]
                        ELSE Eval(dict_merge([w EXCEPT !.h = h1], dst.v, resource_data.v),
                                  LAMBDA w1 : MergeResources(w1, profile, it, i + 1)))

\* the include with the merge left out
MergeProfile_NotMerged(w, profile, profile_data) ==
    IF ~IsDict(w.h, profile_data) THEN [w EXCEPT !.exc = "AttributeError"] ELSE w

\* lines 240-247: the Resources of profile_data merged into profile
MergeProfile(w, profile, profile_data) ==
    Eval(IF Has(w.h[profile], "Resources") THEN w.h
         ELSE Store(Alloc(w.h, NewDict(<<>>, <<>>)), profile, "Resources", PyRef(Len(w.h) + 1)),
         LAMBDA h1 :
            IF ~IsDict(h1, profile_data)
            THEN [w EXCEPT !.h = h1, !.exc = "AttributeError"]
            ELSE Eval(<<[w EXCEPT !.h = h1], DictIter(h1, DictOrEmpty(h1[profile_data.v], "Resources"))>>,
                      LAMBDA a : MergeResources(a[1], profile, a[2], 1)))

\* lines 258-267: the loops over the resources, the modifying objects and
\* their RequiredResourceProfile entries, moved on to the next entry; kind is
\* "entry" when there is one, "end" when the loops are over, or an exception
RECURSIVE NextEntry(_, _, _)
NextEntry(h, f, level) ==
    IF level = "entries"
    THEN IF IterStale(h, f.ei) THEN [f |-> f, kind |-> "RuntimeError"]
         ELSE IF IterHasNext(h, f.ei)
         THEN [f |-> [f EXCEPT !.ei.pos = @ + 1], kind |-> "entry"]
         ELSE NextEntry(h, f, "objects")
    ELSE IF level = "objects"
    THEN LET n == IF f.oi.l = 0 THEN 1 ELSE Len(h[f.oi.l].vs)
             inner_object == IF f.oi.l = 0 THEN IterValue(h, f.ri) ELSE h[f.oi.l].vs[f.oi.pos + 1]
         IN  IF f.oi.pos >= n THEN NextEntry(h, f, "resources")
             ELSE IF ~IsDict(h, inner_object) THEN [f |-> f, kind |-> "AttributeError"]
             ELSE Eval([f EXCEPT !.oi.pos = @ + 1,
                                 !.inner_object = inner_object.v,
                                 !.ei = DictIter(h, DictOrEmpty(h[inner_object.v],
                                                                "RequiredResourceProfile"))],
                       LAMBDA f1 : NextEntry(h, f1, "entries"))
    ELSE IF IterStale(h, f.ri) THEN [f |-> f, kind |-> "RuntimeError"]
         ELSE IF ~IterHasNext(h, f.ri) THEN [f |-> f, kind |-> "end"]
         ELSE LET ri == [f.ri EXCEPT !.pos = @ + 1]
                  resource == IterValue(h, ri)
              IN  IF ~IsDict(h, resource) THEN [f |-> f, kind |-> "TypeError"]
                  ELSE Eval([f EXCEPT !.ri = ri,
                                      !.resource_name = IterKey(h, ri),
                                      !.oi = [l |-> IF Has(h[resource.v], "UseCases")
                                                    THEN Get(h[resource.v], "UseCases").v
                                                    ELSE 0,
                                              pos |-> 0]],
                            LAMBDA f1 : NextEntry(h, f1, "objects"))

\* ScopedEntry recording a profile that lacks the resource, and logging
\* nothing
ScopedEntry_Recorded(w, f, directories) ==
    Eval(parseProfileInclude(w, IterKey(w.h, f.ei), IterValue(w.h, f.ei).v, directories, f.online),
         LAMBDA r :
            IF ~Truthy(r.h, r.val) THEN [w |-> r, merged |-> FALSE]
            ELSE IF ~IsDict(r.h, r.val) THEN [w |-> [r EXCEPT !.exc = "AttributeError"], merged |-> FALSE]
            ELSE IF ~IsRef(GetOr(r.h[r.val.v], "Resources", PyNone))
            THEN [w |-> [r EXCEPT !.exc = "TypeError"], merged |-> FALSE]
            ELSE IF Has(r.h[Get(r.h[r.val.v], "Resources").v], f.resource_name)
            THEN [w |-> dict_merge(r, f.inner_object,
                                   Get(r.h[Get(r.h[r.val.v], "Resources").v], f.resource_name).v),
                  merged |-> TRUE]
            ELSE [w |-> r, merged |-> TRUE])

\* lines 268-276: one RequiredResourceProfile entry of inner_object
ScopedEntry(w, f, directories) ==
    LET target_name == IterKey(w.h, f.ei)
        target_profile_info == IterValue(w.h, f.ei)
    IN  Eval(parseProfileInclude(w, target_name, target_profile_info.v, directories, f.online), LAMBDA r :
            LET profile_data == r.val
                target_resources == GetOr(r.h[profile_data.v], "Resources", PyNone)
            IN  IF ~Truthy(r.h, profile_data) THEN [w |-> r, merged |-> FALSE]
                ELSE IF ~IsDict(r.h, profile_data)
                THEN [w |-> [r EXCEPT !.exc = "AttributeError"], merged |-> FALSE]
                ELSE IF ~IsRef(target_resources)
                THEN [w |-> [r EXCEPT !.exc = "TypeError"], merged |-> FALSE]
                ELSE IF Has(r.h[target_resources.v], f.resource_name)
                THEN LET source == Get(r.h[target_resources.v], f.resource_name)
                     IN  IF ~IsDict(r.h, source)
                         THEN [w |-> [r EXCEPT !.exc = "AttributeError"], merged |-> FALSE]
                         ELSE [w |-> dict_merge(r, f.inner_object, source.v), merged |-> TRUE]
                ELSE [w |-> [r EXCEPT !.log = Append(r.log,
                                LogEntry("error", "MissingResource", <<target_name, f.resource_name>>))],
                      merged |-> FALSE])

(***************************************************************************)
(* The inputs of the merger: requirement blocks, by family                 *)
(***************************************************************************)
MaxMerges == 2

Requirements == {"Mandatory", "Recommended", "IfImplemented", "Supported"}
V1_2_0 == PyVer(<<"1", ".", "2", ".", "0">>)
V1_9_0 == PyVer(<<"1", ".", "9", ".", "0">>)
V1_10_0 == PyVer(<<"1", ".", "1", "0", ".", "0">>)
Versions == {V1_2_0, V1_9_0, V1_10_0}
Counts == {PyInt(2), PyInt(5)}

\* the field k with one of the values vals, or no field k
Opt(k, vals) == {<<>>} \cup {<< <<k, v>> >> : v \in vals}

\* values of three types for one key: a str, an int and a dict
Typed(str) == {str, PyInt(2), DictLit(<<>>)}

\* the items of the lists: two strings, one dict written with its keys in
\* two orders, a list, the string that is the JSON text of that dict, and
\* the JSON values 1 and true
ItemXY == DictLit(<< <<"x", PyInt(1)>>, <<"y", PyInt(2)>> >>)
ItemYX == DictLit(<< <<"y", PyInt(2)>>, <<"x", PyInt(1)>> >>)
ItemText == JsonText(Dumps(Load(<<>>, ItemXY).h, Load(<<>>, ItemXY).val))
ListItems == {PyStr("a"), PyStr("b"), ItemXY, ItemYX, ListLit(<<PyStr("a")>>), ItemText,
              PyInt(1), PyBool(TRUE)}
\* the lists of at most one item, and those of two strings
Lists == {ListLit(<<>>)} \cup {ListLit(<<x>>) : x \in ListItems}
            \cup {ListLit(<<x, y>>) : x \in {PyStr("a"), PyStr("b")}, y \in {PyStr("a"), PyStr("b")}}

Families == {"read", "write", "requirement", "version", "count", "mixed", "lists", "nested"}
Blocks(fam) ==
    CASE fam = "read" ->
           {DictLit(r) : r \in Opt("ReadRequirement", {PyStr(x) : x \in Requirements})}
      [] fam = "write" ->
           {DictLit(w) : w \in Opt("WriteRequirement", {PyStr(x) : x \in Requirements})}
      [] fam = "requirement" ->
           {DictLit(r \o w) :
               r \in Opt("ReadRequirement", {PyStr("Mandatory"), PyStr("Supported")}),
               w \in Opt("WriteRequirement", {PyStr("Mandatory"), PyStr("Supported")})}
      [] fam = "version" ->
           {DictLit(a \o b) : a \in Opt("MinVersion", Versions), b \in Opt("MaxVersion", Versions)}
      [] fam = "count" ->
           {DictLit(a \o b) : a \in Opt("MinCount", Counts), b \in Opt("MaxCount", Counts)}
      [] fam = "mixed" ->
           {DictLit(a \o b) :
               a \in Opt("Purpose", Typed(PyStr("p")))
                       \cup Opt("MinCount", Typed(PyVer(<<"5">>)))
                       \cup Opt("ReadRequirement", Typed(PyStr("Recommended"))),
               b \in Opt("Comment", {PyStr("c")})}
      [] fam = "lists" ->
           {DictLit(<< <<"Values", l>> >>) : l \in Lists}
      [] fam = "nested" ->
           {DictLit(p) : p \in Opt("PropertyRequirements",
               {DictLit(a \o b) : a \in Opt("MinCount", Counts),
                                  b \in Opt("Values", {ListLit(<<PyStr("a")>>), ListLit(<<PyStr("b")>>)})})}

(***************************************************************************)
(* The merger on its own: a destination block and the blocks merged into   *)
(* it one after the other                                                  *)
(***************************************************************************)
Idle ==
    /\ log = <<>>
    /\ io = <<>>
    /\ cache = <<>>
    /\ chain = <<>>
    /\ stack = <<>>
    /\ status = "idle"
    /\ ret = <<>>
    /\ runs = <<>>

InitMerge ==
    /\ Idle
    /\ files = <<>>
    /\ remote = {}
    /\ \E fam \in Families : \E b \in Blocks(fam) :
          /\ heap = Load(<<>>, b).h
          /\ call = [op |-> "load", fam |-> fam, n |-> 0, dct |-> Load(<<>>, b).val.v,
                     merge_dct |-> 0, srcs |-> <<>>]
          /\ pre = [h |-> <<>>]

\* dict_merge(dct, merge_dct), merge_dct a block just read
DictMerge ==
    /\ status = "idle"
    /\ call.n < MaxMerges
    /\ \E b \in Blocks(call.fam) :
          LET src == Load(heap, b)
              m == dict_merge([h |-> src.h, log |-> log, exc |-> ""], call.dct, src.val.v)
          IN  /\ heap' = m.h
              /\ log' = m.log
              /\ status' = IF m.exc = "" THEN "idle" ELSE "raised"
              /\ ret' = IF m.exc = "" THEN <<>> ELSE <<m.exc>>
              \* srcs: the blocks merged so far, each with the structure it was read with
              /\ call' = [call EXCEPT !.op = "dict_merge", !.n = @ + 1, !.merge_dct = src.val.v,
                                      !.srcs = Append(@, [a |-> src.val.v,
                                                          was |-> Dumps(src.h, src.val)])]
              /\ pre' = [h |-> src.h]
    /\ UNCHANGED <<io, cache, files, remote, chain, stack, runs>>

NextMerge == DictMerge

SpecMerge == InitMerge /\ [][NextMerge]_vars

(***************************************************************************)
(* The locator on its own: search directories holding some files, and      *)
(* parseProfileInclude called with any arguments, any number of times      *)
(***************************************************************************)
MaxFiles == 2
MaxCalls == 3

V0_5_0 == PyVer(<<"0", ".", "5", ".", "0">>)
V0_9_0 == PyVer(<<"0", ".", "9", ".", "0">>)
LocNames == {"A", "B"}
FileVersions == {V0_5_0, V0_9_0, V1_2_0}
OtherRepository == PyStr("http://example.org/profiles")

\* a profile file with nothing but its name and, when given, its version
BareProfile(name, version) ==
    DictLit(<< <<"ProfileName", PyStr(name)>> >> \o version)

\* the search directories: up to MaxFiles files, in the order glob lists them
Directories(names, docs(_)) ==
    UNION {[1..n -> UNION {{[base |-> b, doc |-> d] : d \in docs(b)} : b \in names}] : n \in 0..MaxFiles}

\* the files of A come in every version and without one, those of B without
BareDocs(b) ==
    {BareProfile(b, v) : v \in Opt("ProfileVersion", IF b = "A" THEN FileVersions ELSE {})}

\* the ProfileReference a caller passes
References ==
    {DictLit(a \o b) : a \in Opt("MinVersion", {V1_2_0}), b \in Opt("Repository", {OtherRepository})}

\* the references, read into the heap one after the other
RECURSIVE LoadAll(_, _)
LoadAll(h, lits) ==
    IF lits = {} THEN h
    ELSE LET lit == CHOOSE x \in lits : TRUE
         IN  LoadAll(Load(h, lit).h, lits \ {lit})

InitLocate ==
    /\ Idle
    /\ heap = LoadAll(<<>>, References)
    /\ files \in Directories(LocNames, BareDocs)
    /\ remote = {<<defaultrepository, TargetFile("A")>>}
    /\ call = [op |-> "none", n |-> 0]
    /\ pre = [h |-> <<>>]

\* parseProfileInclude(target_name, target_profile_info, directories, online),
\* target_profile_info one of the references in the heap
ParseProfileInclude ==
    /\ status = "idle"
    /\ call.n < MaxCalls
    /\ \E target_name \in LocNames, info \in 1..Cardinality(References), online \in BOOLEAN :
          LET r == parseProfileInclude(World, target_name, info, files, online)
          IN  /\ heap' = r.h
              /\ log' = r.log
              /\ io' = r.io
              /\ cache' = r.cache
              /\ call' = [op |-> "parseProfileInclude", n |-> call.n + 1,
                          target_name |-> target_name, target_profile_info |-> info,
                          online |-> online, val |-> r.val]
              /\ pre' = [h |-> heap, cache |-> cache, io |-> io, log |-> log]
    /\ UNCHANGED <<files, remote, chain, stack, status, ret, runs>>

NextLocate == ParseProfileInclude

SpecLocate == InitLocate /\ [][NextLocate]_vars

(***************************************************************************)
(* The resolver's world: the profiles A, B and C (and X, a profile with    *)
(* nothing but its name; Y has no file), and the dependencies between      *)
(* them, whole-profile and resource-scoped, picked among the candidates    *)
(***************************************************************************)
MaxEdges == 3
MaxRuns == 2
\* the depth of calls at which the interpreter raises RecursionError
MaxDepth == 6

NameOrder == <<"A", "B", "C", "X", "Y">>
Whole(from, to) == [kind |-> "whole", from |-> from, res |-> "", uc |-> 0, to |-> to]
Scoped(from, res, uc, to) == [kind |-> "scoped", from |-> from, res |-> res, uc |-> uc, to |-> to]
EdgeCandidates ==
    {Whole(a, b) : a, b \in {"A", "B", "C"}} \cup {Whole("A", "Y")}
        \cup {Scoped("B", "Fan", 0, "C"), Scoped("C", "Fan", 0, "B"), Scoped("A", "Chassis", 0, "B"),
              Scoped("C", "Power", 1, "B"), Scoped("A", "Chassis", 0, "X")}

\* the mapping of dependency names to (empty) references that E gives
References_(E, kind, from, res, uc) ==
    LET to == SelectSeq(NameOrder,
                  LAMBDA n : [kind |-> kind, from |-> from, res |-> res, uc |-> uc, to |-> n] \in E)
    IN  [i \in 1..Len(to) |-> <<to[i], DictLit(<<>>)>>]
OptReferences(key, E, kind, from, res, uc) ==
    IF References_(E, kind, from, res, uc) = <<>> THEN <<>>
    ELSE << <<key, DictLit(References_(E, kind, from, res, uc))>> >>
RRP(E, from, res, uc) == OptReferences("RequiredResourceProfile", E, "scoped", from, res, uc)

ResourcesOf(name, E) ==
    CASE name = "A" ->
           << <<"Chassis", DictLit(<< <<"ReadRequirement", PyStr("Recommended")>>,
                   <<"PropertyRequirements", DictLit(<< <<"Name",
                        DictLit(<< <<"ReadRequirement", PyStr("Supported")>> >>)>> >>)>> >>
                   \o RRP(E, "A", "Chassis", 0))>> >>
      [] name = "B" ->
           << <<"Chassis", DictLit(<< <<"ReadRequirement", PyStr("Mandatory")>>,
                   <<"PropertyRequirements", DictLit(<< <<"Status",
                        DictLit(<< <<"ReadRequirement", PyStr("Mandatory")>> >>)>> >>)>> >>)>>,
              <<"Fan", DictLit(<< <<"MinCount", PyInt(2)>> >> \o RRP(E, "B", "Fan", 0))>> >>
      [] name = "C" ->
           << <<"Fan", DictLit(<< <<"MinCount", PyInt(5)>> >> \o RRP(E, "C", "Fan", 0))>>,
              <<"Power", DictLit(<< <<"UseCases", ListLit(<<
                   DictLit(<< <<"UseCaseTitle", PyStr("AC")>> >> \o RRP(E, "C", "Power", 1)) >>)>> >>)>> >>

\* the file of profile name
ProfileDoc(name, E) ==
    IF name = "X" THEN BareProfile("X", <<>>)
    ELSE DictLit(<< <<"ProfileName", PyStr(name)>> >>
                 \o OptReferences("RequiredProfiles", E, "whole", name, "", 0)
                 \o << <<"Resources", DictLit(ResourcesOf(name, E))>> >>)

TopName == "A"
FileOf(name) == files[CHOOSE i \in 1..Len(files) : files[i].base = name]

Init ==
    /\ Idle
    /\ heap = <<>>
    /\ \E E \in {S \in SUBSET EdgeCandidates : Cardinality(S) <= MaxEdges} :
          files = [i \in 1..4 |-> [base |-> NameOrder[i], doc |-> ProfileDoc(NameOrder[i], E)]]
    /\ remote = {<<defaultrepository, TargetFile("B")>>}
    /\ call = [op |-> "none"]
    /\ pre = [h |-> <<>>]

Top == stack[Len(stack)]
Pre == [h |-> heap, log |-> log, io |-> io, cache |-> cache, chain |-> chain, stack |-> stack]
SetWorld(w) ==
    /\ heap' = w.h
    /\ log' = w.log
    /\ io' = w.io
    /\ cache' = w.cache

\* an exception leaves every frame: getProfiles catches nothing
Raise(w, exc, op) ==
    /\ SetWorld(w)
    /\ status' = "raised"
    /\ stack' = <<>>
    /\ ret' = [profile_includes |-> <<>>, required_by_resource |-> <<>>, exc |-> exc]
    /\ runs' = [runs EXCEPT ![Len(runs)].exc = exc, ![Len(runs)].over = TRUE]
    /\ call' = [op |-> op, exc |-> exc]
    /\ pre' = Pre
    /\ UNCHANGED <<files, remote, chain>>

\* getProfiles(profile, directories, online=online) on the top-level profile,
\* which the caller has just read from its file
Start ==
    /\ status \in {"idle", "done"}
    /\ Len(runs) < MaxRuns
    /\ \E online \in BOOLEAN :
          \E top \in {Load(heap, FileOf(TopName).doc)} :
          \E e \in {Enter([World EXCEPT !.h = top.h], <<>>, top.val.v, online)} :
              /\ SetWorld(e.w)
              /\ chain' = e.chain
              /\ stack' = <<e.frame>>
              /\ runs' = Append(runs, [profile |-> top.val.v, online |-> online, over |-> FALSE,
                                       profile_includes |-> <<>>, required_by_resource |-> <<>>,
                                       resources |-> PyNone, exc |-> ""])
              /\ call' = [op |-> "getProfiles", profile |-> top.val.v, guarded |-> e.guarded]
    /\ status' = "running"
    \* lines 226-227: the chain of a top-level call is a new list
    /\ pre' = [Pre EXCEPT !.chain = <<>>]
    /\ UNCHANGED <<files, remote, ret>>

\* lines 236-253: one entry of RequiredProfiles, up to the recursive call
WholeInclude ==
    /\ status = "running"
    /\ Top.pc = "whole"
    /\ ~IterStale(heap, Top.it) /\ IterHasNext(heap, Top.it)
    /\ \E f \in {[Top EXCEPT !.it.pos = @ + 1]} :
       \E r \in {parseProfileInclude(World, IterKey(heap, f.it), IterValue(heap, f.it).v,
                                      files, f.online)} :
       \E m \in {IF Truthy(r.h, r.val) THEN MergeProfile(r, f.profile, r.val) ELSE r} :
       \E e \in {IF Truthy(r.h, r.val) /\ m.exc = "" THEN Enter(m, chain, r.val.v, FALSE)
                  ELSE [w |-> m, chain |-> chain, guarded |-> FALSE, frame |-> f]} :
       LET target_name == IterKey(heap, f.it)
           profile_data == r.val
           f2 == [f EXCEPT !.profile_includes = Append(@, profile_data)]
       IN  IF ~Truthy(r.h, profile_data)
           THEN /\ SetWorld(r)
                /\ stack' = [stack EXCEPT ![Len(stack)] = f]
                /\ call' = [op |-> "skip", target_name |-> target_name]
                /\ pre' = Pre
                /\ UNCHANGED <<files, remote, chain, status, ret, runs>>
           ELSE IF m.exc # "" THEN Raise(m, m.exc, "include")
           ELSE IF Len(stack) >= MaxDepth THEN Raise(m, "RecursionError", "include")
           ELSE /\ SetWorld(e.w)
                /\ chain' = e.chain
                /\ stack' = IF e.guarded
                            THEN [stack EXCEPT ![Len(stack)] = f2]
                            ELSE Append([stack EXCEPT ![Len(stack)] = f2], e.frame)
                /\ call' = [op |-> "getProfiles", profile |-> profile_data.v, guarded |-> e.guarded]
                /\ pre' = Pre
                /\ UNCHANGED <<files, remote, status, ret, runs>>

\* WholeDone leaving the loop over RequiredProfiles before its end
WholeDone_Early ==
    /\ status = "running"
    /\ Top.pc = "whole"
    /\ stack' = [stack EXCEPT ![Len(stack)] =
                   [Top EXCEPT !.pc = "scoped",
                               !.ri = DictIter(heap, DictOrEmpty(heap[Top.profile], "Resources"))]]
    /\ call' = [op |-> "whole_done"]
    /\ pre' = Pre
    /\ UNCHANGED <<heap, log, io, cache, files, remote, chain, status, ret, runs>>

\* the loop over RequiredProfiles is over: line 256
WholeDone ==
    /\ status = "running"
    /\ Top.pc = "whole"
    /\ IterStale(heap, Top.it) \/ ~IterHasNext(heap, Top.it)
    /\ IF IterStale(heap, Top.it) THEN Raise(World, "RuntimeError", "whole_done")
       ELSE /\ stack' = [stack EXCEPT ![Len(stack)] =
                           [Top EXCEPT !.pc = "scoped",
                                       !.ri = DictIter(heap, DictOrEmpty(heap[Top.profile], "Resources"))]]
            /\ call' = [op |-> "whole_done"]
            /\ pre' = Pre
            /\ UNCHANGED <<heap, log, io, cache, files, remote, chain, status, ret, runs>>

\* lines 258-276: the next RequiredResourceProfile entry of the profile
ScopedInclude ==
    /\ status = "running"
    /\ Top.pc = "scoped"
    /\ NextEntry(heap, Top, "entries").kind # "end"
    /\ \E n \in {NextEntry(heap, Top, "entries")} :
       \E r \in {IF n.kind = "entry" THEN ScopedEntry(World, n.f, files)
                  ELSE [w |-> World, merged |-> FALSE]} :
           IF n.kind # "entry" THEN Raise(World, n.kind, "scoped")
           ELSE IF r.w.exc # "" THEN Raise(r.w, r.w.exc, "scoped")
           ELSE /\ SetWorld(r.w)
                /\ stack' = [stack EXCEPT ![Len(stack)] =
                               IF r.merged
                               THEN [n.f EXCEPT !.required_by_resource = Append(@, r.w.val)]
                               ELSE n.f]
                /\ call' = [op |-> "scoped", resource_name |-> n.f.resource_name,
                            inner_object |-> n.f.inner_object,
                            target_name |-> IterKey(heap, n.f.ei), merged |-> r.merged]
                /\ pre' = Pre
                /\ UNCHANGED <<files, remote, chain, status, ret, runs>>

\* line 278: the call returns, to the call that made it (lines 251-253) or
\* to the caller of the top-level call
Return ==
    /\ status = "running"
    /\ Top.pc = "scoped"
    /\ NextEntry(heap, Top, "entries").kind = "end"
    /\ IF Len(stack) = 1
       THEN /\ stack' = <<>>
            /\ status' = "done"
            /\ ret' = [profile_includes |-> Top.profile_includes,
                       required_by_resource |-> Top.required_by_resource, exc |-> ""]
            /\ runs' = [runs EXCEPT ![Len(runs)].over = TRUE,
                                    ![Len(runs)].profile_includes = Top.profile_includes,
                                    ![Len(runs)].required_by_resource = Top.required_by_resource,
                                    ![Len(runs)].resources =
                                        Dumps(heap, GetOr(heap[Top.profile], "Resources", PyNone))]
       ELSE /\ stack' = [i \in 1..(Len(stack) - 1) |->
                           IF i < Len(stack) - 1 THEN stack[i]
                           ELSE [stack[i] EXCEPT
                                   !.profile_includes = @ \o Top.profile_includes,
                                   !.required_by_resource = @ \o Top.required_by_resource]]
            /\ UNCHANGED <<status, ret, runs>>
    /\ call' = [op |-> "return", profile |-> Top.profile]
    /\ pre' = Pre
    /\ UNCHANGED <<heap, log, io, cache, files, remote, chain>>

Next == Start \/ WholeInclude \/ WholeDone \/ ScopedInclude \/ Return

Spec == Init /\ [][Next]_vars

\* a call of getProfiles that has begun goes on: it is synchronous and waits
\* for nothing but its own file and network reads
Step == WholeInclude \/ WholeDone \/ ScopedInclude \/ Return
SpecFair == Spec /\ WF_vars(Step)

(***************************************************************************)
(* The merger's properties.  They speak of the last dict_merge call:       *)
(* destination and source as they were when it began, destination as it    *)
(* is now.                                                                 *)
(***************************************************************************)
Merged == call.op = "dict_merge" /\ status = "idle"
PreDst == pre.h[call.dct]
PreSrc == pre.h[call.merge_dct]
PostDst == heap[call.dct]

MandatoryOrAbsent == {PyNone, PyStr("Mandatory")}
ReadOf(o) == GetOr(o, "ReadRequirement", PyNone)
WriteOf(o) == GetOr(o, "WriteRequirement", PyNone)

\* C4: when the ReadRequirement of the destination or of the source is
\* Mandatory or absent, the destination's ReadRequirement after the merge is
\* Mandatory or absent/null.
C4_ReadMandatoryOrAbsentWins ==
    (Merged /\ (ReadOf(PreDst) \in MandatoryOrAbsent \/ ReadOf(PreSrc) \in MandatoryOrAbsent))
        => ReadOf(PostDst) \in MandatoryOrAbsent

\* C5: when both blocks carry a ReadRequirement and neither is Mandatory, the
\* destination's ReadRequirement after the merge is the one of the two with
\* the higher place in Recommended > IfImplemented > Supported.
NonMandatory == {PyStr("Recommended"), PyStr("IfImplemented"), PyStr("Supported")}
C5_ReadMoreRestrictiveWins ==
    (/\ Merged
     /\ Has(PreDst, "ReadRequirement") /\ Has(PreSrc, "ReadRequirement")
     /\ ReadOf(PreDst) \in NonMandatory /\ ReadOf(PreSrc) \in NonMandatory)
        => /\ ReadOf(PostDst) \in {ReadOf(PreDst), ReadOf(PreSrc)}
           /\ REQUIREMENT_HIERARCHY(ReadOf(PostDst)) >= REQUIREMENT_HIERARCHY(ReadOf(PreDst))
           /\ REQUIREMENT_HIERARCHY(ReadOf(PostDst)) >= REQUIREMENT_HIERARCHY(ReadOf(PreSrc))

InBoth(k) == Has(PreDst, k) /\ Has(PreSrc, k)
OneOfBoth(k) == Get(PostDst, k) \in {Get(PreDst, k), Get(PreSrc, k)}
Triple(o, k) == splitVersionString(Get(o, k))
NumbersInBoth(k) == InBoth(k) /\ Get(PreDst, k).t = "int" /\ Get(PreSrc, k).t = "int"
C7_BoundsMostRestrictive ==
    Merged =>
        /\ InBoth("MinVersion") =>
              /\ OneOfBoth("MinVersion")
              /\ ~TupleLess(Triple(PostDst, "MinVersion"), Triple(PreDst, "MinVersion"))
              /\ ~TupleLess(Triple(PostDst, "MinVersion"), Triple(PreSrc, "MinVersion"))
        /\ InBoth("MaxVersion") =>
              /\ OneOfBoth("MaxVersion")
              /\ ~TupleLess(Triple(PreDst, "MaxVersion"), Triple(PostDst, "MaxVersion"))
              /\ ~TupleLess(Triple(PreSrc, "MaxVersion"), Triple(PostDst, "MaxVersion"))
        /\ NumbersInBoth("MinCount") =>
              /\ OneOfBoth("MinCount")
              /\ Get(PostDst, "MinCount").v >= Get(PreDst, "MinCount").v
              /\ Get(PostDst, "MinCount").v >= Get(PreSrc, "MinCount").v
        /\ NumbersInBoth("MaxCount") =>
              /\ OneOfBoth("MaxCount")
              /\ Get(PostDst, "MaxCount").v <= Get(PreDst, "MaxCount").v
              /\ Get(PostDst, "MaxCount").v <= Get(PreSrc, "MaxCount").v

\* MinVersion "1.9.0" merged with "1.10.0" has yielded "1.10.0", and
\* MaxVersion "1.10.0" merged with "1.9.0" has yielded "1.9.0"
C7_Witness ==
    /\ Merged
    /\ InBoth("MinVersion") /\ InBoth("MaxVersion")
    /\ Get(PreDst, "MinVersion") = V1_9_0 /\ Get(PreSrc, "MinVersion") = V1_10_0
    /\ Get(PostDst, "MinVersion") = V1_10_0
    /\ Get(PreDst, "MaxVersion") = V1_10_0 /\ Get(PreSrc, "MaxVersion") = V1_9_0
    /\ Get(PostDst, "MaxVersion") = V1_9_0

MergeDone == call.op = "dict_merge"
TypeConflictKeys ==
    {k \in Range(PreDst.ks) \cap Range(PreSrc.ks) :
        PyType(pre.h, Get(PreDst, k)) # PyType(pre.h, Get(PreSrc, k))}
TypeConflictLogged(k) ==
    \E i \in 1..Len(log) : log[i].what = "TypeConflict" /\ log[i].arg[1] = k

\* C11: for a key that the two blocks hold with values of different types
\* (ReadRequirement, WriteRequirement, MinVersion, MaxVersion, MinCount and
\* MaxCount too), dict_merge raises nothing, leaves the destination's value
\* as it was, logs a warning for the key and merges the other keys.
C11_TypeConflictKeepsDestination ==
    (MergeDone /\ call.n = 1 /\ TypeConflictKeys # {}) =>
        /\ status = "idle"
        /\ \A k \in TypeConflictKeys :
              /\ Get(PostDst, k) = Get(PreDst, k)
              /\ TypeConflictLogged(k)
        /\ \A k \in Range(PreSrc.ks) : Has(PostDst, k)

\* the block merged is a copy of the destination: the same structure in
\* objects of its own
SelfMerge ==
    /\ MergeDone
    /\ Dumps(pre.h, PyRef(call.merge_dct)) = Dumps(pre.h, PyRef(call.dct))

\* C14: merging into a block a copy of that block raises nothing and leaves
\* the block with the structure it had before the merge (nested dicts,
\* lists and requirement fields included).
C14_MergeIdempotent ==
    SelfMerge =>
        /\ status = "idle"
        /\ Dumps(heap, PyRef(call.dct)) = Dumps(pre.h, PyRef(call.dct))

\* the keys that hold a list in both blocks
ListKeys ==
    {k \in Range(PreDst.ks) \cap Range(PreSrc.ks) :
        IsList(pre.h, Get(PreDst, k)) /\ IsList(pre.h, Get(PreSrc, k))}

\* the structures of the items of the list l of the heap h, in order
Structures(h, l) == [i \in 1..Len(h[l.v].vs) |-> Dumps(h, h[l.v].vs[i])]

\* the items of s without those that occurred earlier in s
RECURSIVE FirstSeenFrom(_, _, _)
FirstSeenFrom(s, i, acc) ==
    IF i > Len(s) THEN acc
    ELSE FirstSeenFrom(s, i + 1, IF s[i] \in Range(acc) THEN acc ELSE Append(acc, s[i]))
FirstSeen(s) == FirstSeenFrom(s, 1, <<>>)

\* C15: for a key that holds a list in both blocks dict_merge raises nothing
\* and leaves under the key the items of the destination's list followed by
\* those of the source's, each one once, at the place where it first occurs;
\* two items are the same item when they have the same structure (for
\* dicts: the same key-sorted serialization).
C15_ListUnionFirstSeen ==
    (MergeDone /\ ListKeys # {}) =>
        /\ status = "idle"
        /\ \A k \in ListKeys :
              /\ IsList(heap, Get(PostDst, k))
              /\ Structures(heap, Get(PostDst, k))
                    = FirstSeen(Structures(pre.h, Get(PreDst, k)) \o Structures(pre.h, Get(PreSrc, k)))

\* the objects reached from the object at address a, a included
RECURSIVE Reach(_, _)
Reach(h, a) ==
    {a} \cup UNION {Reach(h, h[a].vs[i].v) : i \in {j \in 1..Len(h[a].vs) : IsRef(h[a].vs[j])}}

\* C17: a block merged into the destination has, after that merge and after
\* every later merge of another block into the same destination, the
\* structure it was read with, and shares no dict and no list with the
\* destination.
C17_SourceUnchanged ==
    Merged =>
        \A i \in 1..Len(call.srcs) :
            /\ Dumps(heap, PyRef(call.srcs[i].a)) = call.srcs[i].was
            /\ Reach(heap, call.srcs[i].a) \cap Reach(heap, call.dct) = {}

(***************************************************************************)
(* The locator's properties.  They speak of the last parseProfileInclude   *)
(* call and of the cache, the reads and the log as they were before it.    *)
(***************************************************************************)
Located == call.op = "parseProfileInclude"
LastFile == TargetFile(call.target_name)
Reads(op, name) == {i \in 1..Len(io) : io[i].op = op /\ io[i].name = name}

\* C8: the network and the disk are asked for a profile name at most once;
\* a call stores what it returns under name + '.json', and a call for a name
\* the cache holds returns the stored value (a stored None too) and reads
\* nothing, whatever reference and online flag it is given.
C8_LookupAtMostOnce ==
    /\ \A n \in LocNames :
          /\ Cardinality(Reads("urlopen", TargetFile(n))) <= 1
          /\ Cardinality(Reads("glob", TargetFile(n))) <= 1
    /\ Located =>
          /\ LastFile \in DOMAIN cache
          /\ cache[LastFile] = call.val
          /\ LastFile \in DOMAIN pre.cache =>
                /\ call.val = pre.cache[LastFile]
                /\ cache = pre.cache
                /\ io = pre.io

\* A call for A, online and with a MinVersion and a Repository, has returned
\* the None an earlier call stored, though the repository serves A
C8_Witness ==
    /\ Located
    /\ call.target_name = "A" /\ call.online
    /\ Has(heap[call.target_profile_info], "MinVersion")
    /\ Has(heap[call.target_profile_info], "Repository")
    /\ LastFile \in DOMAIN pre.cache
    /\ pre.cache[LastFile] = PyNone
    /\ call.val = PyNone
    /\ <<defaultrepository, LastFile>> \in remote

\* the last call searched the directories and found candidates
Candidates == getProfilesMatchingName(LastFile, files)
SearchedLocally ==
    /\ Located
    /\ LastFile \notin DOMAIN pre.cache
    /\ Reads("glob", LastFile) # {}
    /\ Len(Candidates) > 0
LitGetOr(lit, k, default) ==
    IF \E i \in 1..Len(lit.v) : lit.v[i][1] = k
    THEN lit.v[CHOOSE i \in 1..Len(lit.v) : lit.v[i][1] = k][2]
    ELSE default
CandidateVersion(i) == splitVersionString(LitGetOr(Candidates[i].doc, "ProfileVersion", V1_0_0))
ReturnedVersion == splitVersionString(GetOr(heap[call.val.v], "ProfileVersion", V1_0_0))
MinVersionAsked == splitVersionString(GetOr(heap[call.target_profile_info], "MinVersion", V1_0_0))
WarnedNow ==
    /\ Len(log) = Len(pre.log) + 1
    /\ log[Len(log)].what = "VersionWarning"

\* C10: when the local search finds candidates, the profile returned is the
\* one of the highest ProfileVersion among them, and the version warning is
\* logged exactly when that version is below the reference's MinVersion.
C10_HighestVersionReturned ==
    SearchedLocally =>
        /\ IsDict(heap, call.val)
        /\ \A i \in 1..Len(Candidates) : ~TupleLess(ReturnedVersion, CandidateVersion(i))
        /\ WarnedNow <=> TupleLess(ReturnedVersion, MinVersionAsked)

(***************************************************************************)
(* The resolver's properties.  They speak of the last step of getProfiles  *)
(* and of the stack, the chain, the heap and the log as they were before   *)
(* it.                                                                     *)
(***************************************************************************)
\* the last step called getProfiles on call.profile
Entered == call.op = "getProfiles"
GuardTripped == Entered /\ call.guarded
EnteredName == GetOr(heap[call.profile], "ProfileName", PyNone)
\* the call that made the last call, now and before it
Caller == stack[Len(pre.stack)]
PreCaller == pre.stack[Len(pre.stack)]
\* the resource types of the profile at address p in heap h
ResourceTypes(h, p) ==
    IF IsDict(h, GetOr(h[p], "Resources", PyNone))
    THEN Range(h[Get(h[p], "Resources").v].ks)
    ELSE {}
CyclicalImportLogged ==
    /\ Len(log) > Len(pre.log)
    /\ log[Len(log)] = LogEntry("error", "CyclicalImport", <<EnteredName>>)

C1_GuardReturnsEmpty ==
    /\ Entered => (call.guarded <=> EnteredName \in Range(pre.chain))
    /\ GuardTripped =>
          /\ CyclicalImportLogged
          /\ chain = pre.chain
          /\ Len(stack) = Len(pre.stack)
          /\ Caller.profile_includes = Append(PreCaller.profile_includes, PyRef(call.profile))
          /\ Caller.required_by_resource = PreCaller.required_by_resource
C1_NoInfiniteRecursion ==
    /\ \A i \in 1..Len(runs) : runs[i].exc # "RecursionError"
    /\ Cardinality(Range(chain)) = Len(chain)
    /\ Len(stack) <= Len(chain)

\* C1: whatever the dependencies (a profile that requires itself, two that
\* require each other, longer cycles), a call of getProfiles on the top-level
\* profile comes to an end and the calls never nest deeper than the names in
\* the chain; a call on a profile whose ProfileName the chain holds logs the
\* cyclical-import error and returns two empty lists.
C1_ResolveTerminates ==
    /\ [](C1_GuardReturnsEmpty /\ C1_NoInfiniteRecursion)
    /\ (status = "running") ~> (status # "running")

\* A run over a cycle has come to its end, the error logged
C1_Witness ==
    /\ status = "done"
    /\ \E i \in 1..Len(log) : log[i].what = "CyclicalImport"
    /\ \E i \in 1..Len(files) :
          /\ files[i].base = TopName
          /\ LitGetOr(LitGetOr(files[i].doc, "RequiredProfiles", DictLit(<<>>)),
                      TopName, PyNone) # PyNone

\* C2: when getProfiles has returned, every resource type of every profile
\* in the returned profile_includes (the dependencies of the dependencies
\* too) is a resource type of the top-level profile.
C2_FullyMerged ==
    status = "done" =>
        \A i \in 1..Len(ret.profile_includes) :
            ResourceTypes(heap, ret.profile_includes[i].v)
                \subseteq ResourceTypes(heap, runs[Len(runs)].profile)

\* C3: two runs, one after the other, each on a fresh copy of the top-level
\* profile, with the same files and the same online flag, end with the same
\* Resources in the two copies.
C3_RunsAgree ==
    (/\ Len(runs) = 2
     /\ runs[1].over /\ runs[1].exc = ""
     /\ runs[2].over /\ runs[2].exc = ""
     /\ runs[1].online = runs[2].online)
        => runs[1].resources = runs[2].resources

\* C9 as stated: a dependency whose ProfileName the chain holds contributes
\* nothing: the requiring profile's Resources are as they were, the
\* dependency is not appended to profile_includes, and no call is made for
\* its dependencies.
C9_OccurrenceContributesNothing ==
    GuardTripped =>
        /\ Dumps(heap, Get(heap[Caller.profile], "Resources"))
              = Dumps(pre.h, GetOr(pre.h[Caller.profile], "Resources", PyNone))
        /\ Caller.profile_includes = PreCaller.profile_includes
        /\ Len(stack) = Len(pre.stack)

\* C9: a dependency whose ProfileName the chain holds has its Resources
\* merged into the requiring profile and is appended to profile_includes,
\* as any dependency is, before the guard is reached; what is suppressed is
\* the call on it: its own dependencies are not followed, and the call adds
\* nothing to either list.
C9_OnlyDependenciesSuppressed ==
    GuardTripped =>
        /\ ResourceTypes(heap, call.profile) \subseteq ResourceTypes(heap, Caller.profile)
        /\ Len(Caller.profile_includes) = Len(PreCaller.profile_includes) + 1
        /\ Caller.profile_includes[Len(Caller.profile_includes)] = PyRef(call.profile)
        /\ Caller.required_by_resource = PreCaller.required_by_resource
        /\ Len(stack) = Len(pre.stack)
        /\ Caller.it = [PreCaller.it EXCEPT !.pos = @ + 1]

\* A diamond: the requiring profile has gained a resource type from a
\* dependency whose name was in the chain, though no profile requires one
\* that requires it
C9_Witness ==
    /\ GuardTripped
    /\ ResourceTypes(heap, Caller.profile) # ResourceTypes(pre.h, Caller.profile)
    /\ EnteredName \notin {PyStr(TopName)}
    /\ ~\E i \in 1..Len(log) : i < Len(log) /\ log[i].what = "CyclicalImport"

\* the last step was one of the second loop of getProfiles, on the entry
\* ScopedTarget of the RequiredResourceProfile of ScopedObject
ScopedStep == call.op = "scoped" /\ NextEntry(pre.h, PreCaller, "entries").kind = "entry"
ScopedFrame == NextEntry(pre.h, PreCaller, "entries").f
ScopedTarget == IterKey(pre.h, ScopedFrame.ei)
ScopedObject == ScopedFrame.inner_object
\* the profile the entry resolved to
ScopedProfile == cache[TargetFile(ScopedTarget)]
LacksResource ==
    /\ ScopedStep
    /\ IsDict(heap, ScopedProfile)
    /\ IsDict(heap, GetOr(heap[ScopedProfile.v], "Resources", PyNone))
    /\ ScopedFrame.resource_name \notin ResourceTypes(heap, ScopedProfile.v)

\* C12: when an entry of RequiredResourceProfile for the resource type R
\* resolves to a profile whose Resources does not hold R, one error is
\* logged, the modifying object is left as it was, the profile is not added
\* to required_by_resource, and the call goes on.
C12_MissingResourceSkipped ==
    LacksResource =>
        /\ status = "running"
        /\ Len(log) = Len(pre.log) + 1
        /\ log[Len(log)] = LogEntry("error", "MissingResource",
                                    <<ScopedTarget, ScopedFrame.resource_name>>)
        /\ \A a \in 1..Len(pre.h) : heap[a] = pre.h[a]
        /\ Caller.required_by_resource = PreCaller.required_by_resource
        /\ Caller = ScopedFrame

\* A run in which B, which has no Power, was required for the Power of C
\* has returned
C12_Witness ==
    /\ status = "done"
    /\ ret.required_by_resource = <<>>
    /\ \E i \in 1..Len(log) :
          log[i] = LogEntry("error", "MissingResource", <<"B", "Power">>)

\* the last step was one of the first loop of getProfiles
WholeStep == call.op \in {"getProfiles", "skip", "include"} /\ pre.stack # <<>>
\* the modifying objects of the resource at address res: lines 260-263
ModifyingObjects(h, res) ==
    IF Has(h[res], "UseCases") THEN {x.v : x \in Range(h[Get(h[res], "UseCases").v].vs)}
    ELSE {res}
\* the names the modifying object o requires
RequiredOf(h, o) ==
    IF Has(h[o], "RequiredResourceProfile")
    THEN Range(h[Get(h[o], "RequiredResourceProfile").v].ks)
    ELSE {}
\* every RequiredResourceProfile entry of the profile of frame f has been
\* looked up, and merged when the profile found has the resource type
ScopedAllResolved(h, f) ==
    \A R \in ResourceTypes(h, f.profile) :
        \A o \in ModifyingObjects(h, Get(h[Get(h[f.profile], "Resources").v], R).v) :
            \A T \in RequiredOf(h, o) :
                /\ TargetFile(T) \in DOMAIN cache
                /\ (/\ IsDict(h, cache[TargetFile(T)])
                    /\ R \in ResourceTypes(h, cache[TargetFile(T)].v))
                      => cache[TargetFile(T)] \in Range(f.required_by_resource)

\* C13: in a call of getProfiles every whole-profile merge into the profile,
\* and every call made for a dependency, comes before the first
\* resource-scoped lookup of the profile; so when the call returns, the
\* RequiredResourceProfile entries of every resource type the profile then
\* has, those that came in through a whole-profile merge too, have been
\* looked up and merged.
C13_WholeBeforeScoped ==
    /\ WholeStep => PreCaller.pc = "whole"
    /\ ScopedStep =>
          /\ PreCaller.pc = "scoped"
          /\ ~IterHasNext(pre.h, PreCaller.it)
    /\ call.op = "return" => ScopedAllResolved(heap, PreCaller)

\* A has returned with a Fan it got from B alone, and with the MinCount of
\* C, which the Fan of B requires
C13_Witness ==
    /\ status = "done"
    /\ \E i \in 1..Len(files) :
          files[i].base = TopName
              /\ LitGetOr(LitGetOr(files[i].doc, "Resources", DictLit(<<>>)), "Fan", PyNone) = PyNone
    /\ "Fan" \in ResourceTypes(heap, runs[Len(runs)].profile)
    /\ LET Fan == Get(heap[Get(heap[runs[Len(runs)].profile], "Resources").v], "Fan").v
       IN  /\ "C" \in RequiredOf(heap, Fan)
           /\ Get(heap[Fan], "MinCount") = PyInt(5)
    /\ cache[TargetFile("C")] \in Range(ret.required_by_resource)

\* C16: every parseProfileInclude call of a resolution, made by the
\* top-level call or by a call below it, is given the online value the
\* top-level call was given.
C16_OnlineGovernsEveryLookup ==
    (WholeStep \/ ScopedStep) => PreCaller.online = runs[Len(runs)].online

\* C18: the chain of a resolution never holds a name twice, and a step
\* leaves it as it was, except that a call of getProfiles on a profile whose
\* ProfileName the chain does not hold appends that name at its end.
C18_ChainAppendOnly ==
    /\ Cardinality(Range(chain)) = Len(chain)
    /\ call.op # "none" =>
          chain = IF Entered /\ EnteredName \notin Range(pre.chain)
                  THEN Append(pre.chain, EnteredName)
                  ELSE pre.chain

\* a chain of three names, and a call on a profile named in it just refused
C18_Witness ==
    /\ GuardTripped
    /\ chain = <<PyStr("A"), PyStr("B"), PyStr("C")>>
    /\ EnteredName = PyStr("B")

\* C19: a resource-scoped step leaves the RequiredResourceProfile mapping it
\* iterates with the entries it had (the merge of the dependency's resource
\* block adds none), and no such step fails with the RuntimeError of a dict
\* that changed size during iteration.
C19_EntriesStableUnderIteration ==
    /\ ScopedStep => heap[ScopedFrame.ei.d].ks = pre.h[ScopedFrame.ei.d].ks
    /\ ~(call.op = "scoped" /\ status = "raised" /\ call.exc = "RuntimeError")

====
